---- MODULE Spec2Model ----
(***************************************************************************)
(* Model of railway_simple_app.py: the module-level startup sequence of    *)
(* the SENAI application (imports, app construction, database             *)
(* configuration, table creation, admin seeding, extension setup, route   *)
(* import), the /health endpoint and the __main__ entry point.            *)
(***************************************************************************)
EXTENDS Integers, Sequences, FiniteSets, TLC

VARIABLES
    environ,   \* os.environ: DATABASE_URL (set or not, and its characters)
    db,        \* the database: whether the tables exist, and the user rows
    fs,        \* the filesystem: whether /tmp/uploads exists
    pc,        \* per process: position in the module's top-level code
    run,       \* per process: number of times the process has been started
    log,       \* per process: steps attempted in this run, in order
    failed,    \* per process: steps that raised in this run
    app,       \* per process: the Flask application object's configuration
    session,   \* per process: admin_user built and waiting to be committed
    response,  \* per process: the last answer of GET /health
    exitCode   \* per process: -1 while alive, else the exit status

vars == <<environ, db, fs, pc, run, log, failed, app, session, response, exitCode>>

\* ------------------------------------------------------------------ bounds

\* Starts of one process (a start and MaxRuns - 1 restarts).
MaxRuns == 2
\* Pieces a DATABASE_URL value is put together from.
MaxPieces == 3

Procs == {"p1", "p2"}
\* The process that is restarted in the sequential specification.
Main == "p1"

Range(s) == {s[i] : i \in 1..Len(s)}

\* ----------------------------------------------------------------- strings
\* Strings are sequences of one-character strings.

POSTGRES == <<"p","o","s","t","g","r","e","s",":","/","/">>
POSTGRESQL == <<"p","o","s","t","g","r","e","s","q","l",":","/","/">>
SQLITE_FALLBACK == <<"s","q","l","i","t","e",":","/","/","/","t","e","s","t",".","d","b">>

\* str.startswith
StartsWith(s, prefix) ==
    /\ Len(s) >= Len(prefix)
    /\ SubSeq(s, 1, Len(prefix)) = prefix

\* str.find: index of the first occurrence of old in s, 0 when there is none
Find(s, old) ==
    LET hits == {i \in 1..(Len(s) - Len(old) + 1) : SubSeq(s, i, i + Len(old) - 1) = old}
    IN  IF hits = {} THEN 0 ELSE CHOOSE i \in hits : \A j \in hits : i <= j

RECURSIVE ReplaceAll(_, _, _)
ReplaceAll(s, old, new) ==
    LET i == Find(s, old)
    IN  IF i = 0 THEN s
        ELSE SubSeq(s, 1, i - 1) \o new
             \o ReplaceAll(SubSeq(s, i + Len(old), Len(s)), old, new)

\* str.replace(old, new, 1): only the first occurrence is replaced
ReplaceFirst(s, old, new) ==
    LET i == Find(s, old)
    IN  IF i = 0 THEN s
        ELSE SubSeq(s, 1, i - 1) \o new \o SubSeq(s, i + Len(old), Len(s))

\* database_url as resolved from os.environ.get("DATABASE_URL")
ResolveDatabaseUrl(env) ==
    LET given == IF (~env.isSet) \/ env.value = <<>> THEN SQLITE_FALLBACK ELSE env.value
    IN  IF StartsWith(given, POSTGRES)
        THEN ReplaceFirst(given, POSTGRES, POSTGRESQL)
        ELSE given

\* DATABASE_URL values: up to MaxPieces pieces, one after the other.
Pieces ==
    { POSTGRES, POSTGRESQL, <<"h">>, <<"p","o","s","t","g","r","e","s",":","/">>,
      <<"m","y","s","q","l",":","/","/">> }

RECURSIVE Concats(_)
Concats(n) ==
    IF n = 0 THEN {<<>>}
    ELSE LET shorter == Concats(n - 1)
         IN  shorter \cup {s \o piece : s \in shorter, piece \in Pieces}

Unset == [isSet |-> FALSE, value |-> <<>>]
UrlInputs == {Unset} \cup {[isSet |-> TRUE, value |-> s] : s \in Concats(MaxPieces)}
\* The environments of the startup specifications: unset, legacy prefix, other.
UrlSamples ==
    { Unset,
      [isSet |-> TRUE, value |-> POSTGRES \o <<"h">>],
      [isSet |-> TRUE, value |-> <<"m","y","s","q","l",":","/","/">> \o <<"h">>] }

\* ---------------------------------------------------------------- database

ADMIN_USERNAME == "edson.lemes"

\* admin_user after User() and the four assignments, before set_password
AdminFields ==
    [username |-> ADMIN_USERNAME, name |-> "Edson Lemes", role |-> "admin",
     email |-> "edson.lemes@senai.br", password_hash |-> ""]

\* set_password that leaves the credential as it was
SetPasswordNoop(user, plaintext) == user

\* admin_user.set_password('senai103103'): the credential is derived, not stored
SetPassword(user, plaintext) == [user EXCEPT !.password_hash = "hash:" \o plaintext]

\* admin_user as handed to db.session.add
NewAdminUser == SetPassword(AdminFields, "senai103103")

\* A stored row: the user's columns, its primary key, and (history, not a
\* column) the process and run whose commit inserted it; proc "none" for a
\* row that was there before any run.
Row(user, id, proc, runNo) ==
    [username |-> user.username, name |-> user.name, role |-> user.role,
     email |-> user.email, password_hash |-> user.password_hash,
     id |-> id, proc |-> proc, runNo |-> runNo]

\* a query without the username filter
QueryAll(users) == users

\* User.query.filter_by(username='edson.lemes')
AdminQuery(users) == {u \in users : u.username = ADMIN_USERNAME}

\* The username column of the users table is unique.
UsernameUnique == TRUE

\* drop_all() before create_all(): the tables are emptied
DropAndCreateAll(d) == [tables |-> TRUE, users |-> {}]

\* db.create_all(): creates the missing tables, leaves the existing rows
CreateAll(d) == [d EXCEPT !.tables = TRUE]

\* db.session.add(admin_user): the pending objects of the session
SessionAdd(pending, user) == pending \cup {user}

\* db.session.commit(): whether the INSERTs of the pending objects go through
CommitAccepted(d, pending) ==
    /\ d.tables
    /\ UsernameUnique =>
         \A user \in pending : \A u \in d.users : u.username # user.username

\* db.session.commit(): the rows after the pending objects are inserted
Committed(d, pending, proc, runNo) ==
    [d EXCEPT !.users =
        @ \cup {Row(user, Cardinality(d.users) + 1, proc, runNo) : user \in pending}]

\* Rows a database can hold before the first run.
OtherUser ==
    Row([username |-> "maria", name |-> "Maria", role |-> "teacher",
         email |-> "maria@senai.br", password_hash |-> "hash:x"], 1, "none", 0)
PreAdmins ==
    { Row(NewAdminUser, 2, "none", 0),
      Row([username |-> ADMIN_USERNAME, name |-> "E. Lemes", role |-> "teacher",
           email |-> "el@example.org", password_hash |-> "hash:changed"], 2, "none", 0),
      Row([username |-> ADMIN_USERNAME, name |-> "Edson Lemes", role |-> "admin",
           email |-> "edson.lemes@senai.br", password_hash |-> ""], 2, "none", 0) }

FreshDatabases ==
    {[tables |-> FALSE, users |-> {}]}
    \cup {[tables |-> TRUE, users |-> us] : us \in {{}, {OtherUser}}}
Databases ==
    FreshDatabases
    \cup {[tables |-> TRUE, users |-> {OtherUser, a}] : a \in PreAdmins}

\* ------------------------------------------------------------- application

NoApp ==
    [created |-> FALSE, uri |-> <<>>, dbBound |-> FALSE, health |-> FALSE,
     models |-> FALSE, login |-> FALSE, mail |-> FALSE, routes |-> FALSE]

NoResponse == [status |-> 0, body |-> "", raised |-> FALSE]

\* The ten steps of the sequence, as the specification numbers them.
Steps ==
    <<"create_app", "resolve_url", "db_init", "probe", "tables", "admin",
      "login_mail", "upload", "routes", "health_route">>

\* the import error is logged and execution goes on
ImportOutcomeContinue(failing) == [pc |-> "create_app", code |-> -1]

\* except Exception around the three foundational imports: log, sys.exit(1)
ImportOutcome(failing) ==
    IF failing = "none"
    THEN [pc |-> "create_app", code |-> -1]
    ELSE [pc |-> "exited", code |-> 1]

\* no except clause of its own: the exception reaches the outermost handler,
\* which skips the rest of the block
OnFailurePropagates(step) == "main"

\* Where execution continues after a step raised: after the except clause
\* that catches it.
OnFailure(step) ==
    CASE step = "db_init" -> "health_route"
      [] step = "probe" -> "tables"
      [] step = "tables" -> "admin_lookup"
      [] step = "admin" -> "login_mail"
      [] step \in {"login_mail", "upload", "routes"} -> "ready"

\* a health check that reports the database binding
HealthAnswerDeep(a, raises) ==
    IF a.dbBound /\ ~raises
    THEN [status |-> 200, body |-> "{\"status\":\"healthy\",\"app\":\"running\"}",
          raised |-> FALSE]
    ELSE [status |-> 500, body |-> "{\"status\":\"unhealthy\",\"error\":...}",
          raised |-> raises]

\* health(): the answer of GET /health; a is the application object
HealthAnswer(a, raises) ==
    IF ~raises
    THEN [status |-> 200, body |-> "{\"status\":\"healthy\",\"app\":\"running\"}",
          raised |-> FALSE]
    ELSE [status |-> 500, body |-> "{\"status\":\"unhealthy\",\"error\":...}",
          raised |-> TRUE]

\* ------------------------------------------------------------------ state

InitWith(envs, dbs) ==
    /\ environ \in envs
    /\ db \in dbs
    /\ fs = [uploads |-> FALSE]
    /\ pc = [p \in Procs |-> "idle"]
    /\ run = [p \in Procs |-> 0]
    /\ log = [p \in Procs |-> <<>>]
    /\ failed = [p \in Procs |-> {}]
    /\ app = [p \in Procs |-> NoApp]
    /\ session = [p \in Procs |-> {}]
    /\ response = [p \in Procs |-> NoResponse]
    /\ exitCode = [p \in Procs |-> -1]

Init == InitWith(UrlSamples, Databases)

\* The shape of the state.
TypeOK ==
    /\ environ \in UrlInputs \cup UrlSamples
    /\ db.tables \in BOOLEAN /\ IsFiniteSet(db.users)
    /\ fs.uploads \in BOOLEAN
    /\ \A p \in Procs :
         /\ pc[p] \in {"idle", "imports", "create_app", "resolve_url", "db_init",
                       "health_route", "probe", "tables", "admin_lookup", "admin_build",
                       "admin_commit", "login_mail", "upload", "routes", "ready", "main",
                       "serving", "listening", "exited"}
         /\ run[p] \in 0..MaxRuns
         /\ failed[p] \subseteq {"imports", "db_init", "probe", "tables", "admin",
                                 "duplicate", "login_mail", "upload", "routes"}
         /\ app[p].created \in BOOLEAN
         /\ session[p] \subseteq {NewAdminUser}
         /\ response[p].status \in {0, 200, 500}
         /\ exitCode[p] \in {-1, 0, 1}

\* A step was attempted and raised or not; execution continues at next.
Attempt(p, step, ok, next) ==
    /\ log' = [log EXCEPT ![p] = Append(@, step)]
    /\ failed' = [failed EXCEPT ![p] = IF ok THEN @ ELSE @ \cup {step}]
    /\ pc' = [pc EXCEPT ![p] = IF ok THEN next ELSE OnFailure(step)]

\* ---------------------------------------------------------------- actions

Ended == {"serving", "listening", "exited"}

Boot(p) ==
    /\ run[p] < MaxRuns
    /\ pc' = [pc EXCEPT ![p] = "imports"]
    /\ run' = [run EXCEPT ![p] = @ + 1]
    /\ log' = [log EXCEPT ![p] = <<>>]
    /\ failed' = [failed EXCEPT ![p] = {}]
    /\ app' = [app EXCEPT ![p] = NoApp]
    /\ session' = [session EXCEPT ![p] = {}]
    /\ response' = [response EXCEPT ![p] = NoResponse]
    /\ exitCode' = [exitCode EXCEPT ![p] = -1]
    /\ UNCHANGED <<environ, db, fs>>

\* The interpreter starts executing the module.
Start(p) ==
    /\ pc[p] = "idle"
    /\ Boot(p)

\* The process has ended or is serving, and is started again: a fresh
\* interpreter, the same database, filesystem and environment.
Restart(p) ==
    /\ pc[p] \in Ended
    /\ Boot(p)

\* from flask import ...; from werkzeug... import ProxyFix; from models import db
FoundationalImports(p) ==
    /\ pc[p] = "imports"
    /\ \E failing \in {"none", "flask", "proxyfix", "models"} :
         /\ pc' = [pc EXCEPT ![p] = ImportOutcome(failing).pc]
         /\ exitCode' = [exitCode EXCEPT ![p] = ImportOutcome(failing).code]
         /\ failed' = [failed EXCEPT ![p] =
                          IF failing = "none" THEN @ ELSE @ \cup {"imports"}]
    /\ UNCHANGED <<environ, db, fs, run, log, app, session, response>>

\* app = Flask(__name__); secret key; ProxyFix
CreateApp(p) ==
    /\ pc[p] = "create_app"
    /\ Attempt(p, "create_app", TRUE, "resolve_url")
    /\ app' = [app EXCEPT ![p].created = TRUE]
    /\ UNCHANGED <<environ, db, fs, run, session, response, exitCode>>

\* database_url resolution; app.config["SQLALCHEMY_DATABASE_URI"] = database_url
DatabaseConfig(p) ==
    /\ pc[p] = "resolve_url"
    /\ Attempt(p, "resolve_url", TRUE, "db_init")
    /\ app' = [app EXCEPT ![p].uri = ResolveDatabaseUrl(environ)]
    /\ UNCHANGED <<environ, db, fs, run, session, response, exitCode>>

\* db.init_app(app)
DbInit(p) ==
    /\ pc[p] = "db_init"
    /\ \E ok \in BOOLEAN :
         /\ Attempt(p, "db_init", ok, "health_route")
         /\ app' = [app EXCEPT ![p].dbBound = ok]
    /\ UNCHANGED <<environ, db, fs, run, session, response, exitCode>>

\* @app.route('/health')
RegisterHealth(p) ==
    /\ pc[p] = "health_route"
    /\ Attempt(p, "health_route", TRUE, "probe")
    /\ app' = [app EXCEPT ![p].health = TRUE]
    /\ UNCHANGED <<environ, db, fs, run, session, response, exitCode>>

\* db.engine.connect(): raises when the extension is not bound to the app or
\* the server cannot be reached
Probe(p) ==
    /\ pc[p] = "probe"
    /\ \E reachable \in BOOLEAN :
         Attempt(p, "probe", app[p].dbBound /\ reachable, "tables")
    /\ UNCHANGED <<environ, db, fs, run, app, session, response, exitCode>>

\* from models import User, ...; db.create_all()
CreateTables(p) ==
    /\ pc[p] = "tables"
    /\ \E outcome \in {"ok", "import_fails", "create_all_fails"} :
         LET ok == outcome = "ok" /\ app[p].dbBound
         IN  /\ Attempt(p, "tables", ok, "admin_lookup")
             /\ app' = [app EXCEPT ![p].models = (outcome # "import_fails")]
             /\ db' = IF ok THEN CreateAll(db) ELSE db
    /\ UNCHANGED <<environ, fs, run, session, response, exitCode>>

\* admin_user = User.query.filter_by(username='edson.lemes').first()
\* if not admin_user: ...
AdminLookup(p) ==
    /\ pc[p] = "admin_lookup"
    /\ \E reachable \in BOOLEAN :
         LET ok == app[p].models /\ app[p].dbBound /\ db.tables /\ reachable
             admin_user == AdminQuery(db.users)
         IN  Attempt(p, "admin", ok,
                     IF admin_user = {} THEN "admin_build" ELSE "login_mail")
    /\ UNCHANGED <<environ, db, fs, run, app, session, response, exitCode>>

\* admin_user = User(); the four assignments; set_password; db.session.add
AdminBuild(p) ==
    /\ pc[p] = "admin_build"
    /\ \E ok \in BOOLEAN :
         /\ pc' = [pc EXCEPT ![p] = IF ok THEN "admin_commit" ELSE OnFailure("admin")]
         /\ failed' = [failed EXCEPT ![p] = IF ok THEN @ ELSE @ \cup {"admin"}]
         /\ session' = [session EXCEPT ![p] =
                           IF ok THEN SessionAdd(@, NewAdminUser) ELSE @]
    /\ UNCHANGED <<environ, db, fs, run, log, app, response, exitCode>>

\* db.session.commit()
AdminCommit(p) ==
    /\ pc[p] = "admin_commit"
    /\ \E reachable \in BOOLEAN :
         LET ok == reachable /\ CommitAccepted(db, session[p])
         IN  /\ pc' = [pc EXCEPT ![p] = IF ok THEN "login_mail" ELSE OnFailure("admin")]
             /\ failed' = [failed EXCEPT ![p] =
                              IF ok THEN @
                              ELSE IF CommitAccepted(db, session[p]) THEN @ \cup {"admin"}
                              ELSE @ \cup {"admin", "duplicate"}]
             /\ db' = IF ok THEN Committed(db, session[p], p, run[p]) ELSE db
    /\ session' = [session EXCEPT ![p] = {}]
    /\ UNCHANGED <<environ, fs, run, log, app, response, exitCode>>

\* LoginManager().init_app(app); app.config.update(...); Mail().init_app(app)
LoginMail(p) ==
    /\ pc[p] = "login_mail"
    /\ \E outcome \in {"ok", "login_fails", "mail_fails"} :
         /\ Attempt(p, "login_mail", outcome = "ok", "upload")
         /\ app' = [app EXCEPT ![p].login = (outcome # "login_fails"),
                               ![p].mail = (outcome = "ok")]
    /\ UNCHANGED <<environ, db, fs, run, session, response, exitCode>>

\* os.makedirs(app.config['UPLOAD_FOLDER'], exist_ok=True)
UploadDir(p) ==
    /\ pc[p] = "upload"
    /\ \E ok \in BOOLEAN :
         /\ Attempt(p, "upload", ok, "routes")
         /\ fs' = [fs EXCEPT !.uploads = @ \/ ok]
    /\ UNCHANGED <<environ, db, run, app, session, response, exitCode>>

\* import routes
ImportRoutes(p) ==
    /\ pc[p] = "routes"
    /\ \E ok \in BOOLEAN :
         /\ Attempt(p, "routes", ok, "ready")
         /\ app' = [app EXCEPT ![p].routes = ok]
    /\ UNCHANGED <<environ, db, fs, run, session, response, exitCode>>

\* logging.info("APPLICATION READY!"); the app context ends
AppReady(p) ==
    /\ pc[p] = "ready"
    /\ log' = [log EXCEPT ![p] = Append(@, "ready")]
    /\ pc' = [pc EXCEPT ![p] = "main"]
    /\ UNCHANGED <<environ, db, fs, run, failed, app, session, response, exitCode>>

\* if __name__ == '__main__': port = int(...); app.run(...)
\* otherwise the module was imported by a WSGI server, which serves the app
MainEntry(p) ==
    /\ pc[p] = "main"
    /\ \E isMain \in BOOLEAN, portOk \in BOOLEAN :
         /\ pc' = [pc EXCEPT ![p] =
                      IF ~isMain THEN "serving"
                      ELSE IF portOk THEN "listening" ELSE "exited"]
         /\ exitCode' = [exitCode EXCEPT ![p] =
                            IF isMain /\ ~portOk THEN 1 ELSE @]
    /\ UNCHANGED <<environ, db, fs, run, log, failed, app, session, response>>

\* GET /health
Health(p) ==
    /\ pc[p] \in {"serving", "listening"}
    /\ app[p].health
    /\ \E raises \in BOOLEAN :
         response' = [response EXCEPT ![p] = HealthAnswer(app[p], raises)]
    /\ UNCHANGED <<environ, db, fs, pc, run, log, failed, app, session, exitCode>>

\* One step of the startup sequence of process p.
Sequence(p) ==
    \/ FoundationalImports(p)
    \/ CreateApp(p)
    \/ DatabaseConfig(p)
    \/ DbInit(p)
    \/ RegisterHealth(p)
    \/ Probe(p)
    \/ CreateTables(p)
    \/ AdminLookup(p)
    \/ AdminBuild(p)
    \/ AdminCommit(p)
    \/ LoginMail(p)
    \/ UploadDir(p)
    \/ ImportRoutes(p)
    \/ AppReady(p)
    \/ MainEntry(p)

\* One process, started and restarted, one run after the other.
Next ==
    \/ Start(Main)
    \/ Restart(Main)
    \/ Sequence(Main)
    \/ Health(Main)

Spec == Init /\ [][Next]_vars

\* The interpreter keeps executing the module until it serves or exits.
FairSpec == Spec /\ WF_vars(Sequence(Main))

\* Two processes, each started once, against the same database.
ConcInit == InitWith({Unset}, FreshDatabases)
ConcNext == \E p \in Procs : Start(p) \/ Sequence(p)
ConcSpec == ConcInit /\ [][ConcNext]_vars

\* The connection-string resolution over every DATABASE_URL value.
UrlInit == InitWith(UrlInputs, {[tables |-> FALSE, users |-> {}]})
UrlNext == Start(Main) \/ FoundationalImports(Main) \/ CreateApp(Main) \/ DatabaseConfig(Main)
UrlSpec == UrlInit /\ [][UrlNext]_vars

\* ------------------------------------------------------------- properties

\* The accounts with username 'edson.lemes'.
Admins == {u \in db.users : u.username = "edson.lemes"}

\* The step was attempted in this run of p.
Attempted(p, step) == step \in Range(log[p])

\* The seeding block of this run of p is over.
SeedingOver(p) == Attempted(p, "admin") /\ pc[p] \notin {"admin_build", "admin_commit"}

\* The module's top-level code up to the entry point has been executed.
Loaded(p) ==
    \/ pc[p] \in {"main", "serving", "listening"}
    \/ pc[p] = "exited" /\ "imports" \notin failed[p]

NoDuplicates(s) == \A i, j \in 1..Len(s) : s[i] = s[j] => i = j

IsPrefix(s, t) == Len(s) <= Len(t) /\ s = SubSeq(t, 1, Len(s))

\* The steps in the order the module executes them.
CodeOrder ==
    <<"create_app", "resolve_url", "db_init", "health_route", "probe", "tables",
      "admin", "login_mail", "upload", "routes">>

StepsOf(s) == SelectSeq(s, LAMBDA x : x # "ready")

\* C1: however often the process is started, one run after the other, against
\* the same database, there is at most one account with username
\* 'edson.lemes', and exactly one once a run's seeding block ended without
\* raising.
C1_AtMostOneAdmin ==
    /\ Cardinality(Admins) <= 1
    /\ SeedingOver(Main) /\ "admin" \notin failed[Main] => Cardinality(Admins) = 1

\* A second run found the account the first run created, and left it alone.
C1_Witness ==
    /\ run[Main] = 2
    /\ SeedingOver(Main)
    /\ "admin" \notin failed[Main]
    /\ \E u \in Admins : u.proc = Main /\ u.runNo = 1

\* C2: no step of a run deletes an account with username 'edson.lemes' or
\* changes any of its stored fields: every such row is still there,
\* unchanged, after the step.
C2_AdminNeverTouched ==
    [][\A u \in db.users : u.username = "edson.lemes" => u \in db'.users]_vars

\* A run has loaded the module, its seeding found an account whose fields
\* differ from the seeded ones, and the account is as it was.
C2_Witness ==
    /\ pc[Main] = "main"
    /\ "admin" \notin failed[Main]
    /\ \E u \in Admins : u.proc = "none" /\ u.role = "teacher"

\* C3 (as claimed): when exactly one of the steps database bind, connection
\* probe, table creation, admin seeding, login/mail configuration,
\* upload-directory creation, route import raised, every later step of the
\* sequence was still executed.
C3_LaterStepsRun ==
    \A i \in 3..Len(CodeOrder) :
        Loaded(Main) /\ failed[Main] = {CodeOrder[i]}
            => \A j \in (i + 1)..Len(CodeOrder) : Attempted(Main, CodeOrder[j])

\* C4 (as claimed): the ten steps are executed once each, in the listed
\* order, the liveness endpoint last.
C4_ListedOrder == Loaded(Main) => StepsOf(log[Main]) = Steps

\* C4 (amended): the steps are attempted at most once and in the order create
\* app, resolve url, database bind, liveness endpoint, probe, tables, admin,
\* login/mail, upload directory, routes; all up to login/mail are attempted
\* in every run, the upload directory exactly when login/mail did not raise,
\* the routes exactly when neither login/mail nor the upload directory raised.
C4_CodeOrder ==
    /\ IsPrefix(StepsOf(log[Main]), CodeOrder)
    /\ Loaded(Main) =>
         /\ Attempted(Main, "login_mail")
         /\ Attempted(Main, "upload") <=> "login_mail" \notin failed[Main]
         /\ Attempted(Main, "routes") <=> failed[Main] \cap {"login_mail", "upload"} = {}

\* A run in which table creation and seeding raised has attempted all ten.
C4_Witness ==
    /\ pc[Main] = "main"
    /\ {"tables", "admin"} \subseteq failed[Main]
    /\ Len(StepsOf(log[Main])) = Len(CodeOrder)

\* C5: DATABASE_URL unset resolves to 'sqlite:///test.db'; a value that
\* starts with 'postgres://' resolves to 'postgresql://' followed by the rest
\* of the value as it is; every other non-empty value resolves to itself.
C5_ConnectionString ==
    Attempted(Main, "resolve_url") =>
        /\ ~environ.isSet => app[Main].uri = SQLITE_FALLBACK
        /\ environ.isSet /\ StartsWith(environ.value, POSTGRES) =>
             app[Main].uri =
                 POSTGRESQL \o SubSeq(environ.value, Len(POSTGRES) + 1, Len(environ.value))
        /\ environ.isSet /\ environ.value # <<>> /\ ~StartsWith(environ.value, POSTGRES) =>
             app[Main].uri = environ.value

\* A value with the legacy prefix twice has been resolved.
C5_Witness ==
    /\ Attempted(Main, "resolve_url")
    /\ environ.value = POSTGRES \o POSTGRES \o <<"h">>

\* C6: when one of the three foundational imports failed, the process has
\* exited with a non-zero code and has done nothing else: no application
\* object, no step of the sequence, nothing pending or stored by this run, no
\* request answered.
C6_FatalImport ==
    \A p \in Procs :
        "imports" \in failed[p] =>
            /\ pc[p] = "exited"
            /\ exitCode[p] > 0
            /\ app[p] = NoApp
            /\ log[p] = <<>>
            /\ session[p] = {}
            /\ \A u \in db.users : ~(u.proc = p /\ u.runNo = run[p])
            /\ response[p] = NoResponse

\* An import failed in a restart, against a database that has the tables.
C6_Witness ==
    /\ "imports" \in failed[Main]
    /\ run[Main] = 2
    /\ db.tables

\* C7: GET /health answers 200 with the fixed body unless building the
\* payload raised, whichever startup steps failed, and answers 500 only when
\* it raised; answering changes neither the database, the filesystem, the
\* environment nor the application's configuration.
C7_Health ==
    /\ [](\A p \in Procs :
            response[p] # NoResponse =>
                /\ ~response[p].raised =>
                     /\ response[p].status = 200
                     /\ response[p].body = "{\"status\":\"healthy\",\"app\":\"running\"}"
                /\ response[p].status = 500 => response[p].raised)
    /\ [][\A p \in Procs :
            response'[p] # response[p] /\ response'[p] # NoResponse =>
                UNCHANGED <<db, fs, environ, app, pc>>]_vars

\* Healthy although the database is not bound, the tables are missing, no
\* admin exists and login, mail and routes are not set up.
C7_Witness ==
    /\ response[Main].status = 200
    /\ {"db_init", "probe", "tables", "admin", "login_mail"} \subseteq failed[Main]
    /\ ~db.tables
    /\ ~app[Main].routes

\* C8: a process serves only after the sequence reached its end, no step is
\* attempted twice, and a sequence that started reaches its end whatever
\* steps fail.
C8_RunsToCompletion ==
    /\ [](\A p \in Procs :
            /\ NoDuplicates(log[p])
            /\ pc[p] \in {"serving", "listening"} => Attempted(p, "ready"))
    /\ (pc[Main] = "create_app" ~> Attempted(Main, "ready"))

\* The development server listens after a run in which every step that can
\* raise, up to login/mail, raised.
C8_Witness ==
    /\ pc[Main] = "listening"
    /\ failed[Main] = {"db_init", "probe", "tables", "admin", "login_mail"}

\* The commit of p was refused because the username exists.
LostRace(p) == "duplicate" \in failed[p]

C10_AllOrNothing ==
    /\ \A u \in Admins :
         u.proc # "none" =>
            /\ u.name = "Edson Lemes"
            /\ u.role = "admin"
            /\ u.email = "edson.lemes@senai.br"
            /\ u.password_hash # ""
    /\ \A p \in Procs :
         "admin" \in failed[p] =>
            /\ \A u \in db.users : ~(u.proc = p /\ u.runNo = run[p])
            /\ session[p] = {}
            /\ pc[p] \notin {"admin_build", "admin_commit"}
            /\ Loaded(p) => Attempted(p, "login_mail") /\ Attempted(p, "ready")

\* Seeding raised after the lookup found no account (the tables exist and
\* are bound): the account is still absent and the module is loaded.
C10_Witness ==
    /\ pc[Main] = "main"
    /\ failed[Main] = {"admin"}
    /\ db.tables
    /\ Admins = {}

====
